---- MODULE Spec2Model ----
(***************************************************************************)
(* Model of the Socket.IO chat backend in src/index.js: the userSockets    *)
(* registry, the join / send-message / mark-read / disconnect handlers and *)
(* the storage documents they read and write (schemas in                   *)
(* src/models/User.js).                                                    *)
(*                                                                         *)
(* Node runs every handler on one event loop: a handler runs without       *)
(* interruption up to its next await, so each action below is one such     *)
(* uninterrupted piece.  An awaited storage call and the continuation that *)
(* follows it form one action, taken at some later time; handlers of any   *)
(* connection may be started in between.                                   *)
(***************************************************************************)
EXTENDS Integers, Sequences, FiniteSets, TLC

\* ------------------------------------------------------------------ bounds
MaxConns == 2      \* transport connections that are ever opened
MaxTasks == 3      \* inbound events (handler invocations) in one run
MaxSendTasks == 2  \* inbound events in a run that has a send-message among them
MaxReadTasks == 2  \* inbound events in a run that has a mark-read among them
MaxSends == 1      \* send-message events in one run
MaxReads == 1      \* mark-read events in one run
MaxTypings == 1    \* typing events in one run
MaxLongTasks == 3  \* inbound events in a long send run
MaxLongSends == 2  \* send-message events in a long send run

\* ------------------------------------------------------------ value spaces
ConnId(i) == "s" \o ToString(i)                         \* the i-th socket.id handed out
Conns == {ConnId(i) : i \in 1..MaxConns}
UserIds == {"u1", "u2"}                                \* ids of the User documents
JoinIds == UserIds \cup {ConnId(1)}                    \* values a join may carry: any truthy value, a socket.id too
Missing == ""                                          \* a falsy field (undefined, "")
NoUser == "null"                                       \* uidFound = null
NoConn == "-"                                          \* conn of a handler that does not use its socket
ConvIds == {"c1", "c9"}                                \* conversation ids clients may send
StoredConvs == {"c1"}                                  \* ids with a Conversation document
MsgIds == {"m1", "m2", "m3"}                           \* persisted Message documents

VARIABLES
    conns,        \* transport: socket.id -> "new" | "open" | "closed"
    userSockets,  \* the Map userId -> Set(socketId), in insertion order
    tasks,        \* handler invocations, in the order the events arrived
    emitted,      \* every emit call the server made, in order
    dbStatus,     \* User documents: _id -> status
    dbMessages,   \* Message documents: _id -> [conversationId, receiverId, read]
    dbConvos,     \* Conversation documents: _id -> [participants, unreadCount]
    rooms         \* socket.io: socket.id -> the rooms the socket joined besides its own

vars == <<conns, userSockets, tasks, emitted, dbStatus, dbMessages, dbConvos, rooms>>

\* ------------------------------------------------- JS Set (insertion order)
Range(s) == {s[i] : i \in 1..Len(s)}

\* Set.prototype.add: appends the value unless it is already a member.
SetAdd_push(s, x) == Append(s, x)
SetAdd(s, x) == IF x \in Range(s) THEN s ELSE Append(s, x)

\* Set.prototype.delete
SetDelete(s, x) == SelectSeq(s, LAMBDA y : y # x)

\* ------------------------------------------------- JS Map (insertion order)
\* A Map is a sequence of entries [key, val]; keys are distinct.
MapKeys(m) == {m[i].key : i \in 1..Len(m)}
MapHas(m, k) == k \in MapKeys(m)
MapIndex(m, k) == CHOOSE i \in 1..Len(m) : m[i].key = k
MapGet(m, k) == m[MapIndex(m, k)].val
MapSet(m, k, v) ==
    IF MapHas(m, k)
    THEN [m EXCEPT ![MapIndex(m, k)].val = v]
    ELSE Append(m, [key |-> k, val |-> v])
MapDelete(m, k) == SelectSeq(m, LAMBDA e : e.key # k)

\* ------------------------------------------------------- registry helpers
\* addSocket(userId, socketId)
addSocket(m, userId, socketId) ==
    LET m1 == IF ~MapHas(m, userId) THEN MapSet(m, userId, <<>>) ELSE m
    IN  MapSet(m1, userId, SetAdd(MapGet(m1, userId), socketId))

\* removeSocket(userId, socketId)
removeSocket(m, userId, socketId) ==
    IF ~MapHas(m, userId) THEN m
    ELSE LET set == SetDelete(MapGet(m, userId), socketId)
         IN  IF Len(set) = 0 THEN MapDelete(m, userId)
             ELSE MapSet(m, userId, set)

\* The sockets emitToUser iterates over: userSockets.get(userId), or none.
socketsOf(m, userId) == IF MapHas(m, userId) THEN MapGet(m, userId) ELSE <<>>

\* The connections the transport can deliver to.
OpenConns == {c \in Conns : conns[c] = "open"}

\* -------------------------------------------------------- handler records
\* One record per handler invocation.  pc is the await the handler is parked
\* on, "done" once it has returned, "rejected" if it ended by throwing.
NewTask(kind, c) ==
    [kind |-> kind, conn |-> c, pc |-> "done",
     userId |-> Missing,          \* join: userId; send-message / mark-read: senderId
     receiverId |-> Missing, content |-> Missing, conversationId |-> Missing,
     ackKind |-> "none",          \* "none": no ack passed; "ok"; "throws": ack raises
     acks |-> <<>>,               \* the arguments of every ack invocation, in order
     uidFound |-> NoUser,         \* disconnect: the owner the scan found
     regBefore |-> {},            \* join: the user's sockets before addSocket
     regAfter |-> {},             \* disconnect: the owner's sockets after removeSocket
     targets |-> <<>>,            \* send-message: the sockets iterated by the two emitToUser calls
     convo |-> [found |-> FALSE], \* mark-read: the document findById returned
     delivered |-> FALSE,         \* send-message: the two emitToUser calls were made
     err |-> ""]                  \* message of the error the catch block caught, if any

TaskIds == 1..Len(tasks)
Count(kind) == Cardinality({i \in TaskIds : tasks[i].kind = kind})

\* Room for one more inbound event of the given kind.
CanSend == Len(tasks) < MaxSendTasks /\ Count("send-message") < MaxSends
CanRead == Len(tasks) < MaxReadTasks /\ Count("mark-read") < MaxReads
CanType == Count("typing") < MaxTypings
Budget ==
    /\ Len(tasks) < MaxTasks
    /\ Count("send-message") > 0 => Len(tasks) < MaxSendTasks
    /\ Count("mark-read") > 0 => Len(tasks) < MaxReadTasks

\* Room in a long send run: more events around the sends, and two sends.
LongBudget == Len(tasks) < MaxLongTasks
CanSendLong == Count("send-message") < MaxLongSends

\* ------------------------------------------------------------- emissions
Emit(i, event, room, recv, payload) ==
    [task |-> i, event |-> event, room |-> room, recv |-> recv, payload |-> payload]

\* emitToUser(userId, event, payload): one io.to(sid).emit per socket id in the
\* user's set; a socket id that is no longer connected names an empty room.
InRoom(room) == {c \in OpenConns : c = room \/ room \in rooms[c]}
emitToUser(m, i, userId, event, payload) ==
    LET sockets == socketsOf(m, userId)
    IN  [k \in 1..Len(sockets) |->
            Emit(i, event, sockets[k], InRoom(sockets[k]), payload)]

\* socket.broadcast.emit(event, payload): socket.io 4 leaves out the room named
\* socket.id, that is this socket and every socket that joined a room of
\* that name; every other connected socket receives.
broadcastEmit(i, c, event, payload) ==
    Emit(i, event, "broadcast", OpenConns \ (InRoom(c) \cup {c}), payload)

\* User.findByIdAndUpdate(userId, { status }): no document, no change.
setUserStatus(db, userId, status) ==
    IF userId \in DOMAIN db THEN [db EXCEPT ![userId] = status] ELSE db

\* ------------------------------------------------------------------- Init
Init ==
    /\ conns = [c \in Conns |-> "new"]
    /\ userSockets = <<>>
    /\ rooms = [c \in Conns |-> {}]
    /\ tasks = <<>>
    /\ emitted = <<>>
    /\ dbStatus = [u \in UserIds |-> "offline"]
    /\ dbMessages = [m \in MsgIds |->
          CASE m = "m1" -> [conversationId |-> "c1", receiverId |-> "u1", read |-> FALSE]
            [] m = "m2" -> [conversationId |-> "c1", receiverId |-> "u2", read |-> FALSE]
            [] OTHER    -> [conversationId |-> "c9", receiverId |-> "u1", read |-> FALSE]]
    /\ dbConvos = [c \in StoredConvs |->
          [participants |-> <<"u1", "u2">>,
           unreadCount |-> [u \in {"u1", "u2"} |-> IF u = "u1" THEN 2 ELSE 1]]]

\* ------------------------------------------------------------- transport
\* io.on("connection"): the transport opens the next connection.
Connect ==
    \E i \in 1..MaxConns :
        /\ conns[ConnId(i)] = "new"
        /\ \A j \in 1..(i-1) : conns[ConnId(j)] # "new"
        /\ conns' = [conns EXCEPT ![ConnId(i)] = "open"]
        /\ UNCHANGED <<rooms, userSockets, tasks, emitted, dbStatus, dbMessages, dbConvos>>

\* ------------------------------------------------------------------- join
\* socket.on("join"), up to the await: addSocket(userId, socket.id), then
\* socket.join(userId).  room says whether the run has room for one more
\* inbound event.
JoinWhen(room) ==
    \E c \in Conns, userId \in JoinIds \cup {Missing} :
        /\ conns[c] = "open"
        /\ room
        /\ LET t == [NewTask("join", c) EXCEPT !.userId = userId] IN
           IF userId = Missing
           THEN /\ tasks' = Append(tasks, t)
                /\ UNCHANGED <<userSockets, rooms>>
           ELSE /\ userSockets' = addSocket(userSockets, userId, c)
                /\ rooms' = [rooms EXCEPT ![c] = @ \cup {userId}]
                /\ tasks' = Append(tasks,
                      [t EXCEPT !.pc = "await-update",
                                !.regBefore = Range(socketsOf(userSockets, userId))])
        /\ UNCHANGED <<conns, emitted, dbStatus, dbMessages, dbConvos>>

\* The join handler without its first line (if (!userId) return).
Join_noGuard ==
    \E c \in Conns, userId \in JoinIds \cup {Missing} :
        /\ conns[c] = "open"
        /\ Len(tasks) < MaxTasks
        /\ userSockets' = addSocket(userSockets, userId, c)
        /\ rooms' = [rooms EXCEPT ![c] = @ \cup {userId}]
        /\ tasks' = Append(tasks,
              [NewTask("join", c) EXCEPT
                  !.userId = userId, !.pc = "await-update",
                  !.regBefore = Range(socketsOf(userSockets, userId))])
        /\ UNCHANGED <<conns, emitted, dbStatus, dbMessages, dbConvos>>

Join == JoinWhen(Budget)

\* The status update resolves and the handler broadcasts.
JoinUpdated ==
    \E i \in TaskIds :
        /\ tasks[i].kind = "join" /\ tasks[i].pc = "await-update"
        /\ dbStatus' = setUserStatus(dbStatus, tasks[i].userId, "online")
        /\ emitted' = Append(emitted,
              broadcastEmit(i, tasks[i].conn, "user-status-change",
                            [userId |-> tasks[i].userId, status |-> "online"]))
        /\ tasks' = [tasks EXCEPT ![i].pc = "done"]
        /\ UNCHANGED <<rooms, conns, userSockets, dbMessages, dbConvos>>

\* The status update rejects; the catch block logs.
JoinFailed ==
    \E i \in TaskIds :
        /\ tasks[i].kind = "join" /\ tasks[i].pc = "await-update"
        /\ tasks' = [tasks EXCEPT ![i].pc = "done", ![i].err = "storage unavailable"]
        /\ UNCHANGED <<rooms, conns, userSockets, emitted, dbStatus, dbMessages, dbConvos>>

\* ------------------------------------------------------------- disconnect
\* The scan of userSockets.entries(): the first user whose set has the socket.
OwnerIndexes(m, c) == {k \in 1..Len(m) : c \in Range(m[k].val)}
findOwner_first(m, c) == IF Len(m) = 0 THEN NoUser ELSE m[1].key
findOwner(m, c) ==
    IF OwnerIndexes(m, c) = {} THEN NoUser
    ELSE m[CHOOSE k \in OwnerIndexes(m, c) : \A j \in OwnerIndexes(m, c) : k <= j].key

\* socket.on("disconnect"), up to the await.
DisconnectWhen(room) ==
    \E c \in Conns :
        /\ conns[c] = "open"
        /\ room
        /\ conns' = [conns EXCEPT ![c] = "closed"]
        /\ rooms' = [rooms EXCEPT ![c] = {}]
        /\ LET uid == findOwner(userSockets, c)
               m1 == IF uid # NoUser THEN removeSocket(userSockets, uid, c) ELSE userSockets
               t == [NewTask("disconnect", c) EXCEPT
                        !.uidFound = uid, !.regAfter = Range(socketsOf(m1, uid))]
           IN  /\ userSockets' = m1
               /\ tasks' = Append(tasks,
                     IF uid # NoUser /\ ~MapHas(m1, uid)
                     THEN [t EXCEPT !.pc = "await-update"] ELSE t)
        /\ UNCHANGED <<emitted, dbStatus, dbMessages, dbConvos>>

Disconnect == DisconnectWhen(Budget)

DisconnectUpdated ==
    \E i \in TaskIds :
        /\ tasks[i].kind = "disconnect" /\ tasks[i].pc = "await-update"
        /\ dbStatus' = setUserStatus(dbStatus, tasks[i].uidFound, "offline")
        /\ emitted' = Append(emitted,
              broadcastEmit(i, tasks[i].conn, "user-status-change",
                            [userId |-> tasks[i].uidFound, status |-> "offline"]))
        /\ tasks' = [tasks EXCEPT ![i].pc = "done"]
        /\ UNCHANGED <<rooms, conns, userSockets, dbMessages, dbConvos>>

DisconnectFailed ==
    \E i \in TaskIds :
        /\ tasks[i].kind = "disconnect" /\ tasks[i].pc = "await-update"
        /\ tasks' = [tasks EXCEPT ![i].pc = "done", ![i].err = "storage unavailable"]
        /\ UNCHANGED <<rooms, conns, userSockets, emitted, dbStatus, dbMessages, dbConvos>>

\* ----------------------------------------------------------- send-message
\* catch (err) { console.error(...); ack?.({ ok: false, error: err.message }) }
\* An ack that raises here ends the handler with a rejected promise.
sendCatch(t, message) ==
    [t EXCEPT !.err = message,
              !.acks = IF t.ackKind = "none" THEN @
                       ELSE Append(@, [ok |-> FALSE, error |-> message]),
              !.pc = IF t.ackKind = "throws" THEN "rejected" ELSE "done"]

\* if (!senderId || !receiverId || !content) throw ...
incomplete_noContent(senderId, receiverId, content) ==
    senderId = Missing \/ receiverId = Missing
incomplete(senderId, receiverId, content) ==
    senderId = Missing \/ receiverId = Missing \/ content = Missing

\* pickUserFields(user), for the fields the User documents of the model carry.
pickUserFields(user) == [_id |-> user._id, status |-> user.status]

\* The payloads clients send: to another user, to oneself, from a sender with no
\* User document, and one payload for each required field left out.
SendPayloads ==
    {[senderId |-> "u1", receiverId |-> "u2", content |-> "hi", conversationId |-> "c1"],
     [senderId |-> "u1", receiverId |-> "u1", content |-> "hi", conversationId |-> "c1"],
     [senderId |-> "u3", receiverId |-> "u1", content |-> "hi", conversationId |-> "c1"],
     [senderId |-> Missing, receiverId |-> "u1", content |-> "hi", conversationId |-> "c1"],
     [senderId |-> "u1", receiverId |-> Missing, content |-> "hi", conversationId |-> "c1"],
     [senderId |-> "u1", receiverId |-> "u2", content |-> Missing, conversationId |-> "c1"]}

\* socket.on("send-message"), up to the await.  The handler never refers to
\* its socket, so the record does not keep which connection the event came on.
SendWhen(room) ==
    \E data \in SendPayloads, ackKind \in {"none", "ok", "throws"} :
        /\ OpenConns # {}
        /\ room
        /\ LET t == [NewTask("send-message", NoConn) EXCEPT
                        !.userId = data.senderId, !.receiverId = data.receiverId,
                        !.content = data.content, !.conversationId = data.conversationId,
                        !.ackKind = ackKind]
           IN  tasks' = Append(tasks,
                  IF incomplete(data.senderId, data.receiverId, data.content)
                  THEN sendCatch(t, "Incomplete message payload")
                  ELSE [t EXCEPT !.pc = "await-findById"])
        /\ UNCHANGED <<rooms, conns, userSockets, emitted, dbStatus, dbMessages, dbConvos>>

Send == SendWhen(Budget /\ CanSend)

\* User.findById(senderId) resolves; the rest of the handler runs.
SendFound ==
    \E i \in TaskIds :
        /\ tasks[i].kind = "send-message" /\ tasks[i].pc = "await-findById"
        /\ LET t == tasks[i] IN
           IF t.userId \notin DOMAIN dbStatus
           THEN /\ tasks' = [tasks EXCEPT ![i] = sendCatch(t, "Sender not found")]
                /\ UNCHANGED emitted
           ELSE LET senderDoc == [_id |-> t.userId, status |-> dbStatus[t.userId]]
                    payload == [_id |-> "m0", senderId |-> pickUserFields(senderDoc),
                                receiverId |-> t.receiverId, content |-> t.content,
                                conversationId |-> t.conversationId, read |-> FALSE]
                    acked == [t EXCEPT !.delivered = TRUE,
                                       !.targets = socketsOf(userSockets, t.receiverId)
                                                   \o socketsOf(userSockets, t.userId),
                                       !.acks = IF t.ackKind = "none" THEN @
                                                ELSE Append(@, [ok |-> TRUE])]
                IN  /\ emitted' = emitted
                          \o emitToUser(userSockets, i, t.receiverId, "receive-message", payload)
                          \o emitToUser(userSockets, i, t.userId, "receive-message", payload)
                    /\ tasks' = [tasks EXCEPT ![i] =
                          IF t.ackKind = "throws"
                          THEN sendCatch(acked, "ack failed")
                          ELSE [acked EXCEPT !.pc = "done"]]
        /\ UNCHANGED <<rooms, conns, userSockets, dbStatus, dbMessages, dbConvos>>

\* User.findById(senderId) rejects.
SendFailed ==
    \E i \in TaskIds :
        /\ tasks[i].kind = "send-message" /\ tasks[i].pc = "await-findById"
        /\ tasks' = [tasks EXCEPT ![i] = sendCatch(tasks[i], "storage unavailable")]
        /\ UNCHANGED <<rooms, conns, userSockets, emitted, dbStatus, dbMessages, dbConvos>>

\* ----------------------------------------------------------------- typing
\* The payloads clients send; receiverId may be left out.
TypingPayloads ==
    {[senderId |-> sd, receiverId |-> r, isTyping |-> b] :
        sd \in {"u1"}, r \in UserIds \cup {Missing}, b \in BOOLEAN}

\* socket.on("typing"): synchronous, no ack parameter, no storage call.  The
\* handler does not refer to its socket.
Typing ==
    \E data \in TypingPayloads :
        /\ OpenConns # {}
        /\ Budget /\ CanType
        /\ tasks' = Append(tasks,
              [NewTask("typing", NoConn) EXCEPT
                  !.userId = data.senderId, !.receiverId = data.receiverId])
        /\ emitted' = emitted
              \o emitToUser(userSockets, Len(tasks) + 1, data.receiverId, "user-typing",
                            [userId |-> data.senderId, isTyping |-> data.isTyping])
        /\ UNCHANGED <<rooms, conns, userSockets, dbStatus, dbMessages, dbConvos>>

\* -------------------------------------------------------------- mark-read
\* Message.updateMany({conversationId, receiverId, read: false}, {$set: {read: true}})
updateManyRead(db, conversationId, receiverId) ==
    [m \in DOMAIN db |->
        IF db[m].conversationId = conversationId /\ db[m].receiverId = receiverId
           /\ ~db[m].read
        THEN [db[m] EXCEPT !.read = TRUE] ELSE db[m]]

\* Conversation.findById: the hydrated document.  unreadCount is a Mongoose Map
\* (schema type Map); own holds plain properties assigned on that Map object,
\* modified the paths Mongoose has marked for the next save.
hydrate(db, id) ==
    IF id \in DOMAIN db
    THEN [found |-> TRUE, participants |-> db[id].participants,
          unreadCount |-> db[id].unreadCount, own |-> <<>>, modified |-> {}]
    ELSE [found |-> FALSE]

\* convo.unreadCount[senderId] = 0: a property assignment on the Map object;
\* it neither adds a Map entry nor marks a path modified.
assignUnread(doc, senderId) == [doc EXCEPT !.own = <<[key |-> senderId, val |-> 0]>>]

\* convo.save(): writes the modified paths.
saveConvo(db, id, doc) ==
    [db EXCEPT ![id].unreadCount =
        [u \in DOMAIN @ |-> IF u \in doc.modified THEN doc.unreadCount[u] ELSE @[u]]]

\* socket.on("mark-read"), up to the first await.  This handler does not refer
\* to its socket either.
MarkRead ==
    \E senderId \in UserIds, conversationId \in ConvIds :
        /\ OpenConns # {}
        /\ Budget /\ CanRead
        /\ tasks' = Append(tasks,
              [NewTask("mark-read", NoConn) EXCEPT
                  !.userId = senderId, !.conversationId = conversationId,
                  !.pc = "await-updateMany"])
        /\ UNCHANGED <<rooms, conns, userSockets, emitted, dbStatus, dbMessages, dbConvos>>

\* Message.updateMany resolves; the handler asks for the conversation.
MarkReadUpdated ==
    \E i \in TaskIds :
        /\ tasks[i].kind = "mark-read" /\ tasks[i].pc = "await-updateMany"
        /\ dbMessages' = updateManyRead(dbMessages, tasks[i].conversationId, tasks[i].userId)
        /\ tasks' = [tasks EXCEPT ![i].pc = "await-findById"]
        /\ UNCHANGED <<rooms, conns, userSockets, emitted, dbStatus, dbConvos>>

\* Conversation.findById resolves; if (convo) the handler assigns and saves.
MarkReadFound ==
    \E i \in TaskIds :
        /\ tasks[i].kind = "mark-read" /\ tasks[i].pc = "await-findById"
        /\ LET t == tasks[i]
               doc == hydrate(dbConvos, t.conversationId)
           IN  tasks' = [tasks EXCEPT ![i] =
                  IF doc.found
                  THEN [t EXCEPT !.convo = assignUnread(doc, t.userId), !.pc = "await-save"]
                  ELSE [t EXCEPT !.pc = "done"]]
        /\ UNCHANGED <<rooms, conns, userSockets, emitted, dbStatus, dbMessages, dbConvos>>

\* convo.participants.forEach(...): in order, every participant but the reader.
RECURSIVE notifyOthers(_, _, _)
notifyOthers(i, t, k) ==
    IF k > Len(t.convo.participants) THEN <<>>
    ELSE LET pid == t.convo.participants[k] IN
         (IF pid # t.userId
          THEN emitToUser(userSockets, i, pid, "messages-read",
                          [conversationId |-> t.conversationId, readerId |-> t.userId])
          ELSE <<>>) \o notifyOthers(i, t, k + 1)

\* convo.save() resolves; the handler notifies the other participants.
MarkReadSaved ==
    \E i \in TaskIds :
        /\ tasks[i].kind = "mark-read" /\ tasks[i].pc = "await-save"
        /\ dbConvos' = saveConvo(dbConvos, tasks[i].conversationId, tasks[i].convo)
        /\ emitted' = emitted \o notifyOthers(i, tasks[i], 1)
        /\ tasks' = [tasks EXCEPT ![i].pc = "done"]
        /\ UNCHANGED <<rooms, conns, userSockets, dbStatus, dbMessages>>

MarkReadFailed_continue ==
    \E i \in TaskIds :
        /\ tasks[i].kind = "mark-read"
        /\ tasks[i].pc \in {"await-updateMany", "await-findById", "await-save"}
        /\ tasks' = [tasks EXCEPT ![i].pc = "done", ![i].err = "storage unavailable"]
        /\ emitted' = emitted \o
              (IF tasks[i].pc = "await-save" THEN notifyOthers(i, tasks[i], 1) ELSE <<>>)
        /\ UNCHANGED <<rooms, conns, userSockets, dbStatus, dbMessages, dbConvos>>

\* Any of the three awaited storage calls rejects; the catch block logs.
MarkReadFailed ==
    \E i \in TaskIds :
        /\ tasks[i].kind = "mark-read"
        /\ tasks[i].pc \in {"await-updateMany", "await-findById", "await-save"}
        /\ tasks' = [tasks EXCEPT ![i].pc = "done", ![i].err = "storage unavailable"]
        /\ UNCHANGED <<rooms, conns, userSockets, emitted, dbStatus, dbMessages, dbConvos>>

\* ------------------------------------------------------------------ specs
Presence ==
    \/ Connect
    \/ Join
    \/ JoinUpdated
    \/ JoinFailed
    \/ Disconnect
    \/ DisconnectUpdated
    \/ DisconnectFailed

Sending ==
    \/ Send
    \/ SendFound
    \/ SendFailed

Reading ==
    \/ MarkRead
    \/ MarkReadUpdated
    \/ MarkReadFound
    \/ MarkReadSaved
    \/ MarkReadFailed

Next == Presence \/ Sending \/ Reading \/ Typing
Spec == Init /\ [][Next]_vars

\* The same program with only some kinds of inbound event arriving.
NextPresence == Presence
SpecPresence == Init /\ [][NextPresence]_vars

NextSend == Presence \/ Sending
SpecSend == Init /\ [][NextSend]_vars

NextRead == Presence \/ Reading
SpecRead == Init /\ [][NextRead]_vars

NextTyping == Presence \/ Typing
SpecTyping == Init /\ [][NextTyping]_vars

\* A long send run: up to MaxLongTasks events, MaxLongSends of them sends.
JoinLong == JoinWhen(LongBudget)
DisconnectLong == DisconnectWhen(LongBudget)
SendLong == SendWhen(LongBudget /\ CanSendLong)
NextSendLong ==
    \/ Connect
    \/ JoinLong
    \/ JoinUpdated
    \/ JoinFailed
    \/ DisconnectLong
    \/ DisconnectUpdated
    \/ DisconnectFailed
    \/ SendLong
    \/ SendFound
    \/ SendFailed
SpecSendLong == Init /\ [][NextSendLong]_vars

\* ------------------------------------------------------------- properties
Finished(i) == tasks[i].pc \in {"done", "rejected"}

\* The emit calls handler i made for an event, and how many of them reached c.
EmitsBy(i, event) == {k \in 1..Len(emitted) : emitted[k].task = i /\ emitted[k].event = event}
Received(i, event, c) == Cardinality({k \in EmitsBy(i, event) : c \in emitted[k].recv})
StatusEmits(i, status) ==
    {k \in EmitsBy(i, "user-status-change") : emitted[k].payload.status = status}

\* Connection c has sent a join for user u.
JoinedAs(c, u) ==
    \E i \in TaskIds : tasks[i].kind = "join" /\ tasks[i].conn = c /\ tasks[i].userId = u

\* C1: a user has a registry entry exactly when a connection that joined as
\* that user is still open, and no entry holds an empty connection set.
C1_EntryIffOpenConnection ==
    /\ \A u \in JoinIds :
          MapHas(userSockets, u) <=> (\E c \in OpenConns : JoinedAs(c, u))
    /\ \A k \in 1..Len(userSockets) : Len(userSockets[k].val) > 0

\* C2: a join for a user who already has another registered connection emits
\* no user-status-change broadcast with status online.
C2_NoOnlineBroadcastOnFurtherJoin ==
    \A i \in TaskIds :
        (tasks[i].kind = "join" /\ tasks[i].regBefore \ {tasks[i].conn} # {})
            => StatusEmits(i, "online") = {}

\* C3: a finished disconnect whose user keeps another registered connection
\* has emitted no offline broadcast; one that removed the user's last
\* registered connection has emitted exactly one.
C3_OfflineBroadcastOnlyOnLast ==
    \A i \in TaskIds :
        (tasks[i].kind = "disconnect" /\ tasks[i].uidFound # NoUser /\ Finished(i))
            => Cardinality(StatusEmits(i, "offline"))
                  = (IF tasks[i].regAfter = {} THEN 1 ELSE 0)

\* C4: a send that reached delivery gave the envelope exactly once to every
\* connection registered under the receiver or the sender at that time, and
\* to no other connection.
C4_EnvelopeOncePerRegisteredConnection ==
    \A i \in TaskIds :
        (tasks[i].kind = "send-message" /\ tasks[i].delivered)
            => \A c \in Conns :
                  Received(i, "receive-message", c)
                     = (IF c \in Range(tasks[i].targets) THEN 1 ELSE 0)

\* C5: a finished send with a required field missing, or whose sender has no
\* profile in storage, has acknowledged {ok: false, error} (when an ack was
\* passed) and has emitted receive-message to nobody.
C5_RejectedSendAcksFailureAndDeliversNothing ==
    \A i \in TaskIds :
        (/\ tasks[i].kind = "send-message" /\ Finished(i)
         /\ \/ Missing \in {tasks[i].userId, tasks[i].receiverId, tasks[i].content}
            \/ tasks[i].userId \notin DOMAIN dbStatus)
            => /\ EmitsBy(i, "receive-message") = {}
               /\ tasks[i].ackKind # "none" =>
                     /\ Len(tasks[i].acks) = 1
                     /\ ~tasks[i].acks[1].ok
                     /\ tasks[i].acks[1].error \in
                           {"Incomplete message payload", "Sender not found",
                            "storage unavailable"}

C5_Witness ==
    \E i \in TaskIds :
        /\ tasks[i].kind = "send-message" /\ Finished(i)
        /\ tasks[i].userId \notin DOMAIN dbStatus /\ tasks[i].userId # Missing
        /\ tasks[i].ackKind = "ok"
        /\ tasks[i].err = "Sender not found"
        /\ MapHas(userSockets, tasks[i].receiverId)

\* C6: every finished send that was passed an ack has invoked it exactly once.
C6_AckInvokedExactlyOnce ==
    \A i \in TaskIds :
        (tasks[i].kind = "send-message" /\ Finished(i) /\ tasks[i].ackKind # "none")
            => Len(tasks[i].acks) = 1

\* C7: the step in which a mark-read on an existing conversation completes
\* with no storage failure leaves the stored unreadCount of the reader at 0,
\* gives every open connection of each other participant exactly one
\* messages-read notification with the reader's id, and gives none to a
\* connection of the reader or of a non-participant.
NotifiedNow(c, readerId) ==
    Cardinality({k \in (Len(emitted) + 1)..Len(emitted') :
                    /\ emitted'[k].event = "messages-read"
                    /\ emitted'[k].payload.readerId = readerId
                    /\ c \in emitted'[k].recv})
C7_MarkReadZeroesUnreadAndNotifiesOthers ==
    [][\A i \in TaskIds :
          (/\ tasks[i].kind = "mark-read" /\ tasks[i].pc = "await-save"
           /\ tasks'[i].pc = "done" /\ tasks'[i].err = "")
              => LET t == tasks[i]
                     others == Range(t.convo.participants) \ {t.userId}
                     ofOthers == {c \in OpenConns :
                                     \E u \in others : c \in Range(socketsOf(userSockets, u))}
                     ofReader == Range(socketsOf(userSockets, t.userId))
                 IN  /\ dbConvos'[t.conversationId].unreadCount[t.userId] = 0
                     /\ \A c \in ofOthers : NotifiedNow(c, t.userId) = 1
                     /\ \A c \in (Conns \ ofOthers) \cup ofReader :
                           NotifiedNow(c, t.userId) = 0]_vars

\* C8: no step of a mark-read that names a conversation absent from storage
\* changes the stored messages or conversations or emits anything.
C8_MarkReadMissingConversationIsNoOp ==
    [][\A i \in TaskIds :
          (/\ tasks[i].kind = "mark-read"
           /\ tasks[i].conversationId \notin DOMAIN dbConvos
           /\ tasks'[i] # tasks[i])
              => /\ dbMessages' = dbMessages
                 /\ dbConvos' = dbConvos
                 /\ emitted' = emitted]_vars

\* C9: the disconnect of a connection registered under no user leaves the
\* registry and the stored statuses as they were, finds no owner, returns at
\* once and emits nothing.
C9_DisconnectOfUnjoinedIsNoOp ==
    /\ [][\A c \in Conns :
             (conns[c] = "open" /\ conns'[c] = "closed" /\ OwnerIndexes(userSockets, c) = {})
                => /\ userSockets' = userSockets
                   /\ dbStatus' = dbStatus
                   /\ emitted' = emitted
                   /\ tasks'[Len(tasks')].uidFound = NoUser
                   /\ tasks'[Len(tasks')].pc = "done"]_vars
    /\ [](\A i \in TaskIds :
             (tasks[i].kind = "disconnect" /\ \A u \in JoinIds : ~JoinedAs(tasks[i].conn, u))
                => /\ tasks[i].uidFound = NoUser
                   /\ tasks[i].pc = "done"
                   /\ EmitsBy(i, "user-status-change") = {})

C9_Witness ==
    \E i \in TaskIds :
        /\ tasks[i].kind = "disconnect" /\ tasks[i].uidFound = NoUser
        /\ \A u \in JoinIds : ~JoinedAs(tasks[i].conn, u)
        /\ Len(userSockets) > 0

\* Registering any pair twice in registry m gives what registering it once gives.
RegisterIdempotent(m) ==
    \A u \in JoinIds, c \in Conns :
        LET once == addSocket(m, u, c) IN addSocket(once, u, c) = once

\* C10: registering a (user, connection) pair a second time gives the registry
\* that registering it once gives, from every registry the program reaches
\* (the initial one and every one a step produces); a join by a connection
\* already registered under that user changes nothing in the registry.
C10_RegisterTwiceSameAsOnce ==
    /\ RegisterIdempotent(userSockets)
    /\ [][userSockets' # userSockets => RegisterIdempotent(userSockets')]_vars
    /\ [][(/\ Len(tasks') = Len(tasks) + 1
           /\ tasks'[Len(tasks')].kind = "join"
           /\ tasks'[Len(tasks')].conn
                 \in Range(socketsOf(userSockets, tasks'[Len(tasks')].userId)))
              => userSockets' = userSockets]_vars

C10_Witness ==
    \E i, j \in TaskIds :
        /\ i < j
        /\ tasks[i].kind = "join" /\ tasks[j].kind = "join"
        /\ tasks[i].conn = tasks[j].conn
        /\ tasks[i].userId = tasks[j].userId /\ tasks[i].userId # Missing
        /\ Len(userSockets) = 2

\* C11: no connection is in the connection set of two users.
C11_ConnectionUnderOneUser ==
    \A c \in Conns :
        Cardinality({k \in 1..Len(userSockets) : c \in Range(userSockets[k].val)}) <= 1

\* A join that found no entry for its user, a disconnect that removed the last
\* socket of its owner: the two presence transitions.
IsTransition(i) ==
    \/ tasks[i].kind = "join" /\ tasks[i].userId # Missing /\ tasks[i].regBefore = {}
    \/ tasks[i].kind = "disconnect" /\ tasks[i].uidFound # NoUser /\ tasks[i].regAfter = {}

\* C12: a presence transition whose status write failed has still emitted its
\* user-status-change broadcast.
C12_BroadcastDespiteFailedWrite ==
    \A i \in TaskIds :
        (IsTransition(i) /\ Finished(i) /\ tasks[i].err # "")
            => EmitsBy(i, "user-status-change") # {}

\* C16: no two handlers of one connection are in flight at the same time.
InFlight(i) == ~Finished(i)
C16_OneHandlerPerConnection ==
    \A i, j \in TaskIds :
        (i # j /\ tasks[i].conn = tasks[j].conn /\ tasks[i].conn # NoConn)
            => ~(InFlight(i) /\ InFlight(j))

\* Every join and disconnect handler has returned and none met a storage failure.
PresenceSettled ==
    \A i \in TaskIds :
        tasks[i].kind \in {"join", "disconnect"} => (Finished(i) /\ tasks[i].err = "")

\* C18: once the presence handlers have settled, the stored status of every
\* user that ever joined is online exactly when the user has a registry entry.
C18_StoredStatusMatchesRegistry ==
    PresenceSettled =>
        \A u \in UserIds :
            (\E c \in Conns : JoinedAs(c, u))
                => (dbStatus[u] = "online" <=> MapHas(userSockets, u))

\* The user-status-change broadcasts about user u, by position in emitted.
StatusEmitsAbout(u) ==
    {k \in 1..Len(emitted) :
        emitted[k].event = "user-status-change" /\ emitted[k].payload.userId = u}
LastStatusAbout(u) ==
    emitted[CHOOSE k \in StatusEmitsAbout(u) : \A j \in StatusEmitsAbout(u) : j <= k]
        .payload.status

\* C19: once the presence handlers have settled, the last broadcast about each
\* user says online exactly when the user has a registry entry.
C19_LastBroadcastMatchesRegistry ==
    PresenceSettled =>
        \A u \in UserIds :
            StatusEmitsAbout(u) # {}
                => (LastStatusAbout(u) = "online" <=> MapHas(userSockets, u))

\* C20: a join with a missing or empty user id returns at once: the step
\* leaves the registry, the socket's rooms, the stored statuses and the
\* emissions as they were, and the handler never emits afterwards.
C20_JoinWithoutUserIdIsNoOp ==
    /\ [][(/\ Len(tasks') = Len(tasks) + 1
           /\ tasks'[Len(tasks')].kind = "join"
           /\ tasks'[Len(tasks')].userId = Missing)
              => /\ userSockets' = userSockets
                 /\ rooms' = rooms
                 /\ dbStatus' = dbStatus
                 /\ emitted' = emitted
                 /\ tasks'[Len(tasks')].pc = "done"]_vars
    /\ [](\A i \in TaskIds :
             (tasks[i].kind = "join" /\ tasks[i].userId = Missing)
                => /\ tasks[i].pc = "done"
                   /\ EmitsBy(i, "user-status-change") = {}
                   /\ ~MapHas(userSockets, Missing))

C20_Witness ==
    \E i \in TaskIds :
        /\ tasks[i].kind = "join" /\ tasks[i].userId = Missing
        /\ Len(userSockets) > 0
        /\ OpenConns \ {tasks[i].conn} # {}

\* The emit calls of the step being taken.
NewEmits == (Len(emitted) + 1)..Len(emitted')

\* C14: a typing event makes one user-typing emit for each socket id
\* registered under receiverId and no other emit; every open connection
\* registered under receiverId receives one notification and no other
\* connection receives any; no ack is invoked and neither the registry nor
\* storage changes.
C14_TypingReachesReceiverOnly ==
    [][(/\ Len(tasks') = Len(tasks) + 1
        /\ tasks'[Len(tasks')].kind = "typing")
          => LET t == tasks'[Len(tasks')]
                 registered == Range(socketsOf(userSockets, t.receiverId))
             IN  /\ \A k \in NewEmits :
                       /\ emitted'[k].event = "user-typing"
                       /\ emitted'[k].payload.userId = t.userId
                       /\ emitted'[k].room \in registered
                 /\ \A c \in registered :
                       Cardinality({k \in NewEmits : emitted'[k].room = c}) = 1
                 /\ \A c \in Conns :
                       Cardinality({k \in NewEmits : c \in emitted'[k].recv})
                          = (IF c \in registered \cap OpenConns THEN 1 ELSE 0)
                 /\ t.acks = <<>> /\ t.pc = "done"
                 /\ userSockets' = userSockets
                 /\ dbStatus' = dbStatus /\ dbMessages' = dbMessages
                 /\ dbConvos' = dbConvos]_vars

FailedRead(i) == tasks[i].kind = "mark-read" /\ tasks[i].err # ""

\* C15: a mark-read whose storage call fails ends there: the failing step
\* writes nothing and emits nothing, the handler is over without a rejection
\* leaving it, it has emitted no messages-read, and it never takes another
\* step (no later step, no retry).
C15_FailedMarkReadStopsQuietly ==
    /\ [](\A i \in TaskIds :
            FailedRead(i) => /\ tasks[i].pc = "done"
                             /\ EmitsBy(i, "messages-read") = {})
    /\ [][\A i \in TaskIds :
            /\ FailedRead(i) => tasks'[i] = tasks[i]
            /\ (tasks[i].kind = "mark-read" /\ tasks[i].err = "" /\ tasks'[i].err # "")
                  => /\ emitted' = emitted
                     /\ dbMessages' = dbMessages
                     /\ dbConvos' = dbConvos]_vars

\* The save failed while another participant had an open registered connection.
C15_Witness ==
    \E i \in TaskIds :
        /\ FailedRead(i)
        /\ tasks[i].convo.found
        /\ \E k \in 1..Len(tasks[i].convo.participants) :
              LET pid == tasks[i].convo.participants[k]
              IN  /\ pid # tasks[i].userId
                  /\ Range(socketsOf(userSockets, pid)) \cap OpenConns # {}

\* Handlers i and j ran send-message for the same sender and receiver, and the
\* router took up i first.
SamePair(i, j) ==
    /\ i < j
    /\ tasks[i].kind = "send-message" /\ tasks[j].kind = "send-message"
    /\ tasks[i].userId = tasks[j].userId
    /\ tasks[i].receiverId = tasks[j].receiverId

\* C13: of two sends from one sender to one receiver, a connection that got
\* the envelope of both got that of the send taken up first before the other.
C13_EnvelopesInSendOrder ==
    \A i, j \in TaskIds :
        SamePair(i, j) =>
            \A ki \in EmitsBy(i, "receive-message"), kj \in EmitsBy(j, "receive-message") :
                (emitted[ki].recv \cap emitted[kj].recv # {}) => ki < kj

\* A connection closed after handler i was taken up: its disconnect event
\* came in later.
ClosedSince(i) == \E j \in TaskIds : j > i /\ tasks[j].kind = "disconnect"

\* C17: a send whose lookup returns after a connection closed in the meantime
\* completes in that step (delivery or failure), has then invoked its ack
\* once, and emits only to socket ids registered at that time, reaching no
\* closed connection.
C17_SendCompletesAfterClose ==
    [][\A i \in TaskIds :
          (/\ tasks[i].kind = "send-message" /\ tasks[i].pc = "await-findById"
           /\ tasks'[i] # tasks[i]
           /\ ClosedSince(i))
             => /\ tasks'[i].pc \in {"done", "rejected"}
                /\ tasks[i].ackKind # "none" => Len(tasks'[i].acks) = 1
                /\ \A k \in NewEmits :
                      /\ emitted'[k].room \in
                            Range(socketsOf(userSockets, tasks[i].receiverId))
                            \cup Range(socketsOf(userSockets, tasks[i].userId))
                      /\ \A c \in emitted'[k].recv : conns[c] = "open"]_vars

====
